---- MODULE Spec2Model ----
(***************************************************************************)
(* Model of profiler/fakeap.py: the beacon transmitter (TxBeacons) and the *)
(* frame listener (Sniffer), two processes sharing the sequence counter    *)
(* (a multiprocessing.Value with its lock) and the construction lock.      *)
(***************************************************************************)
EXTENDS Integers, Sequences, FiniteSets, TLC

(***************************************************************************)
(* Bounds of the model.                                                    *)
(***************************************************************************)
\* beacons sent plus frames captured in one run of both processes
MaxEvents == 3
\* beacons the transmitter sends in one run on its own, with the clock
MaxTimedBeacons == 3
\* longest duration, in clock ticks, of one call of beacon()
MaxDelay == 4
\* the clock reads 0..MaxBoot when the transmitter is created on its own
MaxBoot == 1

(***************************************************************************)
(* Program constants.                                                      *)
(***************************************************************************)
\* self.beacon_interval = 0.102_400, in clock ticks of 0.1024/3 s
beacon_interval == 3
\* .constants (IEEE 802.11 type and subtype numbers)
DOT11_TYPE_MANAGEMENT == 0
DOT11_SUBTYPE_ASSOC_REQ == 0
DOT11_SUBTYPE_REASSOC_REQ == 2
DOT11_SUBTYPE_PROBE_REQ == 4
DOT11_SUBTYPE_PROBE_RESP == 5
DOT11_SUBTYPE_BEACON == 8
DOT11_SUBTYPE_AUTH_REQ == 11
\* the sequence counter counts modulo 4096 (a 12-bit field)
SEQ_MODULUS == 4096
\* Dot11Beacon(cap=0x1111), Dot11ProbeResp(cap=0x1111)
CAP == 4369
\* Dot11Auth(seqnum=0x02)
AUTH_SEQNUM == 2

\* addresses
BROADCAST == "ff:ff:ff:ff:ff:ff"
ETHER_ANY == "00:00:00:00:00:00"
AP_MAC == "ap"
OTHER_MAC == "other"
Stations == {"sta1", "sta2"}

\* get_mac(self.interface): both processes use the same interface
get_mac == AP_MAC

\* config["GENERAL"]["ssid"], a string given as its code points
ConfigSsid == <<97>>

(***************************************************************************)
(* Bytes and strings: bytes.decode() as UTF-8.  A byte below 128 decodes   *)
(* to the code point of the same number; 0xFF never occurs in UTF-8, so a  *)
(* byte string holding it raises UnicodeDecodeError.                       *)
(***************************************************************************)
SsidBytes == {<<>>, <<97>>, <<98>>, <<255>>}

Decodable(bytes) == \A i \in 1..Len(bytes) : bytes[i] < 128

decode(bytes) == [i \in 1..Len(bytes) |-> bytes[i]]

encode(str) == [i \in 1..Len(str) |-> str[i]]

\* a dissected information element: len is the length of info on the wire
Dot11Elt(id, info) == [ID |-> id, len |-> Len(info), info |-> info]

\* build_fake_frame_ies(config): the advertised elements, the SSID first
build_fake_frame_ies == <<Dot11Elt(0, encode(ConfigSsid)), Dot11Elt(1, <<130>>)>>

(***************************************************************************)
(* Frames.  sequence_number is <<>> while the attribute is not set and     *)
(* <<v>> once set to v.                                                    *)
(***************************************************************************)
NoFrame ==
    [type |-> -1, subtype |-> -1, addr1 |-> "", addr2 |-> "", addr3 |-> "",
     sequence_number |-> <<>>, cap |-> 0, seqnum |-> 0, elts |-> <<>>]

\* RadioTap() / Dot11(type, subtype=BEACON, addr1=broadcast, addr2, addr3)
\*   / Dot11Beacon(cap=0x1111) / beacon_frame_ies
BeaconTemplate(mac) ==
    [type |-> DOT11_TYPE_MANAGEMENT, subtype |-> DOT11_SUBTYPE_BEACON,
     addr1 |-> BROADCAST, addr2 |-> mac, addr3 |-> mac,
     sequence_number |-> <<>>, cap |-> CAP, seqnum |-> 0,
     elts |-> build_fake_frame_ies]

\* RadioTap() / Dot11(subtype=PROBE_RESP, addr2, addr3)
\*   / Dot11ProbeResp(cap=0x1111) / probe_resp_ies
ProbeResponseTemplate(mac) ==
    [type |-> DOT11_TYPE_MANAGEMENT, subtype |-> DOT11_SUBTYPE_PROBE_RESP,
     addr1 |-> ETHER_ANY, addr2 |-> mac, addr3 |-> mac,
     sequence_number |-> <<>>, cap |-> CAP, seqnum |-> 0,
     elts |-> build_fake_frame_ies]

\* RadioTap() / Dot11(subtype=AUTH_REQ, addr2, addr3) / Dot11Auth(seqnum=2)
AuthTemplate(mac) ==
    [type |-> DOT11_TYPE_MANAGEMENT, subtype |-> DOT11_SUBTYPE_AUTH_REQ,
     addr1 |-> ETHER_ANY, addr2 |-> mac, addr3 |-> mac,
     sequence_number |-> <<>>, cap |-> 0, seqnum |-> AUTH_SEQNUM,
     elts |-> <<>>]

(***************************************************************************)
(* Frames on the medium that the listener may capture.                     *)
(***************************************************************************)
Packet(t, st, a1, a2, es) ==
    [type |-> t, subtype |-> st, addr1 |-> a1, addr2 |-> a2, addr3 |-> a1,
     sequence_number |-> <<>>, cap |-> 0, seqnum |-> 0, elts |-> es]

AuthPackets ==
    {Packet(DOT11_TYPE_MANAGEMENT, DOT11_SUBTYPE_AUTH_REQ, AP_MAC, a2, <<>>) :
        a2 \in Stations}
    \cup {Packet(DOT11_TYPE_MANAGEMENT, DOT11_SUBTYPE_AUTH_REQ, OTHER_MAC, "sta1", <<>>)}

ProbePackets ==
    {Packet(DOT11_TYPE_MANAGEMENT, DOT11_SUBTYPE_PROBE_REQ, BROADCAST, "sta1", es) :
        es \in {<<>>} \cup {<<Dot11Elt(0, b)>> : b \in SsidBytes}}
    \cup {Packet(DOT11_TYPE_MANAGEMENT, DOT11_SUBTYPE_PROBE_REQ, BROADCAST, "sta2",
                 <<Dot11Elt(0, encode(ConfigSsid))>>)}

AssocPackets ==
    {Packet(DOT11_TYPE_MANAGEMENT, DOT11_SUBTYPE_ASSOC_REQ, a1, a2,
            <<Dot11Elt(0, encode(ConfigSsid))>>) :
        a1 \in {AP_MAC, OTHER_MAC}, a2 \in Stations}
    \cup {Packet(DOT11_TYPE_MANAGEMENT, DOT11_SUBTYPE_REASSOC_REQ, a1, "sta1",
                 <<Dot11Elt(0, encode(ConfigSsid))>>) :
        a1 \in {AP_MAC, OTHER_MAC}}

\* frames no reaction is meant for: a beacon of another access point, and
\* data frames (type 2) whose subtype is that of an authentication
OtherPackets ==
    {Packet(DOT11_TYPE_MANAGEMENT, DOT11_SUBTYPE_BEACON, BROADCAST, OTHER_MAC, <<>>),
     Packet(2, DOT11_SUBTYPE_AUTH_REQ, AP_MAC, "sta1", <<>>)}

Packets == AuthPackets \cup ProbePackets \cup AssocPackets \cup OtherPackets

\* "type mgt subtype probe-req or type mgt subtype auth or
\*  type mgt subtype assoc-req or type mgt subtype reassoc-req"
bpf_filter(p) ==
    /\ p.type = DOT11_TYPE_MANAGEMENT
    /\ p.subtype \in {DOT11_SUBTYPE_PROBE_REQ, DOT11_SUBTYPE_AUTH_REQ,
                      DOT11_SUBTYPE_ASSOC_REQ, DOT11_SUBTYPE_REASSOC_REQ}

(***************************************************************************)
(* State.                                                                  *)
(***************************************************************************)
VARIABLES
    lock,                  \* the construction Lock: "free", "tx" or "sniffer"
    sequence_number,       \* the shared Value
    seq_lock,              \* sequence_number.get_lock(): "free", "tx", "sniffer"
    listen_only,           \* config["GENERAL"]["listen_only"]
    no_sniffer_filter,     \* args.no_sniffer_filter
    now,                   \* time(), in clock ticks
    tx_pc,                 \* where TxBeacons is
    beacon_frame,          \* TxBeacons.beacon_frame
    start_time,            \* start_time of TxBeacons.every
    tx_value,              \* the counter value TxBeacons read
    tx_times,              \* when each beacon's send was called, and how long it took
    sn_pc,                 \* where Sniffer is
    probe_response_frame,  \* Sniffer.probe_response_frame
    auth_frame,            \* Sniffer.auth_frame
    assoc_reqs,            \* Sniffer.assoc_reqs
    queue,                 \* the output queue
    packet,                \* the frame received_frame was last called with
    sn_value,              \* the counter value Sniffer read
    captured,              \* number of frames captured so far
    sent,                  \* the calls of l2socket.send, in order
    issued                 \* the values next_sequence_number returned, in order

vars ==
    <<lock, sequence_number, seq_lock, listen_only, no_sniffer_filter,
      now,
      tx_pc, beacon_frame, start_time, tx_value, tx_times,
      sn_pc, probe_response_frame, auth_frame, assoc_reqs, queue, packet,
      sn_value, captured, sent, issued>>

tx_vars == <<tx_pc, beacon_frame, start_time, tx_value, tx_times>>

sn_vars ==
    <<sn_pc, probe_response_frame, auth_frame, assoc_reqs, queue, packet,
      sn_value, captured>>

config_vars == <<listen_only, no_sniffer_filter>>

\* the outcomes of l2socket.send: it returns, or raises an OSError whose
\* strerror is one of these texts or None
SendOutcomes ==
    {"ok", "Network is down", "No such device", "No buffer space available", "None"}

\* the outcomes Sniffer tells apart: it returns, or raises an OSError
SnifferSendOutcomes == {"ok", "Network is down"}

\* beacons sent or under way, and frames captured
Events ==
    Len(tx_times) + (IF tx_pc \in {"stamp", "send"} THEN 1 ELSE 0) + captured

\* sequence_number.value = (sequence_number.value + 1) % 4096
next_sequence_number(value) == (value + 1) % SEQ_MODULUS

\* the value of the Value both constructors are given: 0 as at a start, or
\* two short of the wrap as after 4094 frames
InitialSequenceNumbers == {0, SEQ_MODULUS - 2}

Init ==
    /\ lock = "free"
    /\ sequence_number \in InitialSequenceNumbers
    /\ seq_lock = "free"
    /\ listen_only \in BOOLEAN
    /\ no_sniffer_filter \in BOOLEAN
    /\ now = 0
    /\ tx_pc = "init"
    /\ beacon_frame = NoFrame
    /\ start_time = 0
    /\ tx_value = 0
    /\ tx_times = <<>>
    /\ sn_pc = "init"
    /\ probe_response_frame = NoFrame
    /\ auth_frame = NoFrame
    /\ assoc_reqs = [k \in {} |-> NoFrame]
    /\ queue = <<>>
    /\ packet = NoFrame
    /\ sn_value = 0
    /\ captured = 0
    /\ sent = <<>>
    /\ issued = <<>>

(***************************************************************************)
(* TxBeacons.                                                              *)
(***************************************************************************)
\* with lock: (entering)
TxBeacons_lock ==
    /\ tx_pc = "init"
    /\ lock = "free"
    /\ lock' = "tx"
    /\ tx_pc' = "build"
    /\ UNCHANGED <<sequence_number, seq_lock, now, beacon_frame, start_time,
                   tx_value, tx_times, sent, issued>>
    /\ UNCHANGED <<sn_vars, config_vars>>

\* the body of "with lock", and leaving it; then self.every(...):
\* start_time = time() and the loop's first task()
TxBeacons_build ==
    /\ tx_pc = "build"
    /\ beacon_frame' = BeaconTemplate(get_mac)
    /\ lock' = "free"
    /\ start_time' = now
    /\ tx_pc' = "beacon"
    /\ UNCHANGED <<sequence_number, seq_lock, now, tx_value, tx_times, sent,
                   issued>>
    /\ UNCHANGED <<sn_vars, config_vars>>

\* beacon_lock without the lock: the counter is read while the other
\* process may hold it
beacon_lock_not_taken ==
    /\ tx_pc = "beacon"
    /\ Events < MaxEvents
    /\ tx_value' = sequence_number
    /\ tx_pc' = "stamp"
    /\ UNCHANGED <<lock, sequence_number, seq_lock, now, beacon_frame,
                   start_time, tx_times, sent, issued>>
    /\ UNCHANGED <<sn_vars, config_vars>>

\* beacon: with self.sequence_number.get_lock(): (entering), and the read of
\* sequence_number.value in next_sequence_number
beacon_lock ==
    /\ tx_pc = "beacon"
    /\ Events < MaxEvents
    /\ seq_lock = "free"
    /\ seq_lock' = "tx"
    /\ tx_value' = sequence_number
    /\ tx_pc' = "stamp"
    /\ UNCHANGED <<lock, sequence_number, now, beacon_frame, start_time,
                   tx_times, sent, issued>>
    /\ UNCHANGED <<sn_vars, config_vars>>

\* frame.sequence_number = next_sequence_number(self.sequence_number), and
\* leaving "with"
beacon_stamp ==
    /\ tx_pc = "stamp"
    /\ sequence_number' = next_sequence_number(tx_value)
    /\ issued' = Append(issued, [by |-> "tx", value |-> sequence_number'])
    /\ beacon_frame' = [beacon_frame EXCEPT !.sequence_number = <<sequence_number'>>]
    /\ seq_lock' = IF seq_lock = "tx" THEN "free" ELSE seq_lock
    /\ tx_pc' = "send"
    /\ UNCHANGED <<lock, now, start_time, tx_value, tx_times, sent>>
    /\ UNCHANGED <<sn_vars, config_vars>>

\* beacon_except with every OSError taken as fatal
beacon_except_all_fatal(result) ==
    CASE result = "ok" -> "sleep"
      [] result = "None" -> "crashed"
      [] OTHER -> "exited"

\* beacon_except with every OSError swallowed
beacon_except_swallow(result) ==
    CASE result = "None" -> "crashed"
      [] OTHER -> "sleep"

\* except OSError as error: for event in (...): if event in error.strerror:
\* sys.exit(...).  With strerror None, "event in None" raises TypeError.
beacon_except(result) ==
    CASE result = "ok" -> "sleep"
      [] result = "None" -> "crashed"
      [] result \in {"Network is down", "No such device"} -> "exited"
      [] OTHER -> "sleep"

\* self.l2socket.send(frame), taken to return at once
beacon_send ==
    /\ tx_pc = "send"
    /\ \E result \in SendOutcomes :
        /\ sent' = Append(sent, [frame |-> beacon_frame, by |-> "tx",
                                 result |-> result])
        /\ tx_times' = Append(tx_times, [at |-> now, dur |-> 0])
        /\ tx_pc' = beacon_except(result)
    /\ UNCHANGED <<lock, sequence_number, seq_lock, now, beacon_frame,
                   start_time, tx_value, issued>>
    /\ UNCHANGED <<sn_vars, config_vars>>

\* the time to the next tick taken modulo interval: no sleep on a tick
sleep_none_on_tick(interval, t, start) ==
    (interval - ((t - start) % interval)) % interval

\* a flat sleep(interval)
sleep_flat(interval, t, start) == interval

\* interval - ((time() - start_time) % interval)
sleep_duration(interval, t, start) == interval - ((t - start) % interval)

\* sleep(interval - ((time() - start_time) % interval)), then the next task()
every_sleep ==
    /\ tx_pc = "sleep"
    /\ now' = now + sleep_duration(beacon_interval, now, start_time)
    /\ tx_pc' = "beacon"
    /\ UNCHANGED <<lock, sequence_number, seq_lock, beacon_frame, start_time,
                   tx_value, tx_times, sent, issued>>
    /\ UNCHANGED <<sn_vars, config_vars>>

TxBeacons ==
    \/ TxBeacons_lock
    \/ TxBeacons_build
    \/ beacon_lock
    \/ beacon_stamp
    \/ beacon_send
    \/ every_sleep

(***************************************************************************)
(* Sniffer.                                                                *)
(***************************************************************************)
\* Sniffer_lock without the lock: the body is entered whoever holds it
Sniffer_lock_not_taken ==
    /\ sn_pc = "init"
    /\ sn_pc' = "build"
    /\ UNCHANGED <<lock, sequence_number, seq_lock, now, probe_response_frame,
                   auth_frame, assoc_reqs, queue, packet, sn_value, captured,
                   sent, issued>>
    /\ UNCHANGED <<tx_vars, config_vars>>

\* with lock: (entering)
Sniffer_lock ==
    /\ sn_pc = "init"
    /\ lock = "free"
    /\ lock' = "sniffer"
    /\ sn_pc' = "build"
    /\ UNCHANGED <<sequence_number, seq_lock, now, probe_response_frame,
                   auth_frame, assoc_reqs, queue, packet, sn_value, captured,
                   sent, issued>>
    /\ UNCHANGED <<tx_vars, config_vars>>

\* the body of "with lock", and leaving it; then sniff(...) is called
Sniffer_build ==
    /\ sn_pc = "build"
    /\ probe_response_frame' = ProbeResponseTemplate(get_mac)
    /\ auth_frame' = AuthTemplate(get_mac)
    /\ lock' = "free"
    /\ sn_pc' = "sniff"
    /\ UNCHANGED <<sequence_number, seq_lock, now, assoc_reqs, queue, packet,
                   sn_value, captured, sent, issued>>
    /\ UNCHANGED <<tx_vars, config_vars>>

\* assoc_req with the station table keyed by the receiver
assoc_req_by_receiver(frame, s) ==
    [assoc_reqs |->
        [k \in DOMAIN s.assoc_reqs \cup {frame.addr1} |->
            IF k = frame.addr1 THEN frame ELSE s.assoc_reqs[k]],
     queue |-> Append(s.queue, frame)]

\* self.assoc_reqs[frame.addr2] = frame; self.queue.put(frame)
assoc_req(frame, s) ==
    [assoc_reqs |->
        [k \in DOMAIN s.assoc_reqs \cup {frame.addr2} |->
            IF k = frame.addr2 THEN frame ELSE s.assoc_reqs[k]],
     queue |-> Append(s.queue, frame)]

\* received_assoc without the listen_only branch
received_assoc_receiver_only(p, s) ==
    IF p.addr1 = get_mac THEN assoc_req(p, s) ELSE s

\* received_assoc without a test of the receiver
received_assoc_any_receiver(p, s) ==
    assoc_req(p, s)

\* the association branch of received_frame:
\*   if packet.addr1 == self.mac: self.dot11_assoc_request_cb(packet)
\*   if self.listen_only: self.dot11_assoc_request_cb(packet)
received_assoc(p, s) ==
    LET s1 == IF p.addr1 = get_mac THEN assoc_req(p, s) ELSE s
    IN  IF listen_only THEN assoc_req(p, s1) ELSE s1

\* received_probe without the test for a zero-length SSID element
received_probe_no_wildcard(p) ==
    IF p.elts = <<>> THEN "crashed"
    ELSE IF ~Decodable(p.elts[1].info) THEN "crashed"
    ELSE IF decode(p.elts[1].info) = ConfigSsid
         THEN "probe_response"
         ELSE "sniff"

\* the probe request branch of received_frame, up to the call of
\* probe_response: packet[Dot11Elt] raises IndexError without such a layer,
\* .info.decode() raises UnicodeDecodeError
received_probe(p) ==
    IF p.elts = <<>> THEN "crashed"
    ELSE IF ~Decodable(p.elts[1].info) THEN "crashed"
    ELSE IF decode(p.elts[1].info) = ConfigSsid \/ p.elts[1].len = 0
         THEN "probe_response"
         ELSE "sniff"

\* received_auth without the test of the receiver
received_auth_any_receiver(p) == "auth"

\* the authentication branch of received_frame
received_auth(p) ==
    IF p.addr1 = get_mac THEN "auth" ELSE "sniff"

\* sniff(prn=self.received_frame_cb, filter=self.bpf_filter) delivers a
\* frame, and received_frame up to the callback's first blocking call
received_frame(p) ==
    /\ packet' = p
    /\ captured' = captured + 1
    /\ IF p.subtype = DOT11_SUBTYPE_AUTH_REQ
       THEN /\ sn_pc' = received_auth(p)
            /\ UNCHANGED <<assoc_reqs, queue>>
       ELSE IF p.subtype = DOT11_SUBTYPE_PROBE_REQ
       THEN /\ sn_pc' = received_probe(p)
            /\ UNCHANGED <<assoc_reqs, queue>>
       ELSE IF p.subtype = DOT11_SUBTYPE_ASSOC_REQ
               \/ p.subtype = DOT11_SUBTYPE_REASSOC_REQ
       THEN LET s == received_assoc(p, [assoc_reqs |-> assoc_reqs, queue |-> queue])
            IN  /\ assoc_reqs' = s.assoc_reqs
                /\ queue' = s.queue
                /\ sn_pc' = "sniff"
       ELSE /\ sn_pc' = "sniff"
            /\ UNCHANGED <<assoc_reqs, queue>>
    /\ UNCHANGED <<lock, sequence_number, seq_lock, now, probe_response_frame,
                   auth_frame, sn_value, sent, issued>>
    /\ UNCHANGED <<tx_vars, config_vars>>

sniff ==
    /\ sn_pc = "sniff"
    /\ Events < MaxEvents
    /\ \E p \in Packets :
        /\ no_sniffer_filter \/ bpf_filter(p)
        /\ received_frame(p)

\* probe_response: with self.sequence_number.get_lock(): (entering), and the
\* read of sequence_number.value in next_sequence_number
probe_response_lock ==
    /\ sn_pc = "probe_response"
    /\ seq_lock = "free"
    /\ seq_lock' = "sniffer"
    /\ sn_value' = sequence_number
    /\ sn_pc' = "probe_stamp"
    /\ UNCHANGED <<lock, sequence_number, now, probe_response_frame,
                   auth_frame, assoc_reqs, queue, packet, captured, sent, issued>>
    /\ UNCHANGED <<tx_vars, config_vars>>

\* frame.sequence_number = next_sequence_number(self.sequence_number), and
\* leaving "with"
probe_response_stamp ==
    /\ sn_pc = "probe_stamp"
    /\ sequence_number' = next_sequence_number(sn_value)
    /\ issued' = Append(issued, [by |-> "sniffer", value |-> sequence_number'])
    /\ probe_response_frame' =
          [probe_response_frame EXCEPT !.sequence_number = <<sequence_number'>>]
    /\ seq_lock' = IF seq_lock = "sniffer" THEN "free" ELSE seq_lock
    /\ sn_pc' = "probe_send"
    /\ UNCHANGED <<lock, now, auth_frame, assoc_reqs, queue, packet, sn_value,
                   captured, sent>>
    /\ UNCHANGED <<tx_vars, config_vars>>

\* an OSError raised by l2socket.send in a callback is caught nowhere: it
\* ends sniff and the process
sniffer_send(result) == IF result = "ok" THEN "sniff" ELSE "crashed"

\* frame[Dot11].addr1 = probe_request.addr2; self.l2socket.send(frame)
probe_response_send ==
    /\ sn_pc = "probe_send"
    /\ probe_response_frame' = [probe_response_frame EXCEPT !.addr1 = packet.addr2]
    /\ \E result \in SnifferSendOutcomes :
        /\ sent' = Append(sent, [frame |-> probe_response_frame', by |-> "sniffer",
                                 result |-> result])
        /\ sn_pc' = sniffer_send(result)
    /\ UNCHANGED <<lock, sequence_number, seq_lock, now, auth_frame, assoc_reqs,
                   queue, packet, sn_value, captured, issued>>
    /\ UNCHANGED <<tx_vars, config_vars>>

\* auth_lock with the receiver written to the source address
auth_lock_source ==
    /\ sn_pc = "auth"
    /\ seq_lock = "free"
    /\ seq_lock' = "sniffer"
    /\ auth_frame' = [auth_frame EXCEPT !.addr2 = packet.addr2]
    /\ sn_value' = sequence_number
    /\ sn_pc' = "auth_stamp"
    /\ UNCHANGED <<lock, sequence_number, now, probe_response_frame, assoc_reqs,
                   queue, packet, captured, sent, issued>>
    /\ UNCHANGED <<tx_vars, config_vars>>

\* auth: frame[Dot11].addr1 = receiver; with self.sequence_number.get_lock():
\* (entering), and the read of sequence_number.value in next_sequence_number
auth_lock ==
    /\ sn_pc = "auth"
    /\ seq_lock = "free"
    /\ seq_lock' = "sniffer"
    /\ auth_frame' = [auth_frame EXCEPT !.addr1 = packet.addr2]
    /\ sn_value' = sequence_number
    /\ sn_pc' = "auth_stamp"
    /\ UNCHANGED <<lock, sequence_number, now, probe_response_frame, assoc_reqs,
                   queue, packet, captured, sent, issued>>
    /\ UNCHANGED <<tx_vars, config_vars>>

\* next_sequence_number(self.sequence_number) - 1
auth_sequence_number(v) == v - 1

\* frame.sequence_number = next_sequence_number(self.sequence_number) - 1,
\* and leaving "with"
auth_stamp ==
    /\ sn_pc = "auth_stamp"
    /\ sequence_number' = next_sequence_number(sn_value)
    /\ issued' = Append(issued, [by |-> "sniffer", value |-> sequence_number'])
    /\ auth_frame' =
          [auth_frame EXCEPT !.sequence_number = <<auth_sequence_number(sequence_number')>>]
    /\ seq_lock' = IF seq_lock = "sniffer" THEN "free" ELSE seq_lock
    /\ sn_pc' = "auth_send"
    /\ UNCHANGED <<lock, now, probe_response_frame, assoc_reqs, queue, packet,
                   sn_value, captured, sent>>
    /\ UNCHANGED <<tx_vars, config_vars>>

\* self.l2socket.send(frame)
auth_send ==
    /\ sn_pc = "auth_send"
    /\ \E result \in SnifferSendOutcomes :
        /\ sent' = Append(sent, [frame |-> auth_frame, by |-> "sniffer",
                                 result |-> result])
        /\ sn_pc' = sniffer_send(result)
    /\ UNCHANGED <<lock, sequence_number, seq_lock, now, probe_response_frame,
                   auth_frame, assoc_reqs, queue, packet, sn_value, captured,
                   issued>>
    /\ UNCHANGED <<tx_vars, config_vars>>

Sniffer ==
    \/ Sniffer_lock
    \/ Sniffer_build
    \/ sniff
    \/ probe_response_lock
    \/ probe_response_stamp
    \/ probe_response_send
    \/ auth_lock
    \/ auth_stamp
    \/ auth_send

Next == TxBeacons \/ Sniffer

Spec == Init /\ [][Next]_vars

\* both processes are started and scheduled: a constructor that can take
\* the construction lock, or is inside "with lock", goes on
SpecFair ==
    /\ Init
    /\ [][Next]_vars
    /\ WF_vars(TxBeacons_lock)
    /\ WF_vars(TxBeacons_build)
    /\ WF_vars(Sniffer_lock)
    /\ WF_vars(Sniffer_build)

(***************************************************************************)
(* TxBeacons on its own, with the clock: no Sniffer is created, so a call  *)
(* of beacon() runs without interleaving and is one step, which takes d    *)
(* clock ticks.                                                            *)
(***************************************************************************)
InitEvery ==
    /\ lock = "free"
    /\ sequence_number \in InitialSequenceNumbers
    /\ seq_lock = "free"
    /\ listen_only = FALSE
    /\ no_sniffer_filter = FALSE
    /\ now \in 0..MaxBoot
    /\ tx_pc = "init"
    /\ beacon_frame = NoFrame
    /\ start_time = 0
    /\ tx_value = 0
    /\ tx_times = <<>>
    /\ sn_pc = "none"
    /\ probe_response_frame = NoFrame
    /\ auth_frame = NoFrame
    /\ assoc_reqs = [k \in {} |-> NoFrame]
    /\ queue = <<>>
    /\ packet = NoFrame
    /\ sn_value = 0
    /\ captured = 0
    /\ sent = <<>>
    /\ issued = <<>>

\* task(): the whole of beacon()
beacon ==
    /\ tx_pc = "beacon"
    /\ Len(tx_times) < MaxTimedBeacons
    /\ seq_lock = "free"
    /\ tx_value' = sequence_number
    /\ sequence_number' = next_sequence_number(sequence_number)
    /\ issued' = Append(issued, [by |-> "tx", value |-> sequence_number'])
    /\ beacon_frame' = [beacon_frame EXCEPT !.sequence_number = <<sequence_number'>>]
    /\ \E d \in 0..MaxDelay, result \in SendOutcomes :
        /\ sent' = Append(sent, [frame |-> beacon_frame', by |-> "tx",
                                 result |-> result])
        /\ tx_times' = Append(tx_times, [at |-> now, dur |-> d])
        /\ now' = now + d
        /\ tx_pc' = beacon_except(result)
    /\ UNCHANGED <<lock, seq_lock, start_time>>
    /\ UNCHANGED <<sn_vars, config_vars>>

NextEvery ==
    \/ TxBeacons_lock
    \/ TxBeacons_build
    \/ beacon
    \/ every_sleep

SpecEvery == InitEvery /\ [][NextEvery]_vars

(***************************************************************************)
(* Properties.                                                             *)
(***************************************************************************)
\* the value next_sequence_number last returned to process by
LastIssued(by) ==
    LET idx == {i \in 1..Len(issued) : issued[i].by = by}
    IN  issued[CHOOSE i \in idx : \A j \in idx : j <= i].value

\* C1: the values next_sequence_number returns, in the order the counter
\* lock is taken by either process, each equal (previous + 1) mod 4096, and
\* no two calls of a run of fewer than 4096 calls return the same value.
C1_SuccessiveSequenceNumbers ==
    /\ \A i \in 2..Len(issued) :
          issued[i].value = (issued[i - 1].value + 1) % SEQ_MODULUS
    /\ Len(issued) < SEQ_MODULUS =>
          \A i, j \in 1..Len(issued) : i # j => issued[i].value # issued[j].value

\* both processes drew numbers, the transmitter between two draws of the
\* listener, and the counter wrapped from 4095 to 0
C1_Witness ==
    /\ Len(issued) = 3
    /\ issued[1].by = "sniffer" /\ issued[2].by = "tx" /\ issued[3].by = "sniffer"
    /\ issued[1].value = SEQ_MODULUS - 1
    /\ issued[2].value = 0

\* the step is a call of received_frame with frame p
Captures(p) == captured' = captured + 1 /\ packet' = p

\* the calls of l2socket.send by Sniffer
SnifferSent == SelectSeq(sent, LAMBDA e : e.by = "sniffer")

IsAssoc(p) ==
    p.subtype \in {DOT11_SUBTYPE_ASSOC_REQ, DOT11_SUBTYPE_REASSOC_REQ}

\* C2: while fewer than 4096 frames were stamped, no two frames handed to
\* the link layer (beacons, probe responses, authentication responses)
\* carry the same sequence number.
C2_DistinctSequenceNumbers ==
    Len(issued) < SEQ_MODULUS =>
        \A i, j \in 1..Len(sent) :
            i # j => sent[i].frame.sequence_number # sent[j].frame.sequence_number

\* C3: the authentication response about to be sent carries (v - 1) mod 4096,
\* v the value the counter issued for it, and every authentication response
\* sent carries a value in 0..4095.
C3_AuthSequenceNumber ==
    /\ sn_pc = "auth_send" =>
          auth_frame.sequence_number
              = <<(LastIssued("sniffer") - 1) % SEQ_MODULUS>>
    /\ \A i \in 1..Len(sent) :
          sent[i].frame.subtype = DOT11_SUBTYPE_AUTH_REQ =>
              sent[i].frame.sequence_number[1] \in 0..(SEQ_MODULUS - 1)

\* what C4 asks of one step
C4_AuthStep ==
    /\ \A p \in Packets :
          (Captures(p) /\ p.subtype = DOT11_SUBTYPE_AUTH_REQ) =>
              /\ sent' = sent
              /\ sequence_number' = sequence_number
              /\ sn_pc' = IF p.addr1 = AP_MAC THEN "auth" ELSE "sniff"
    /\ sn_pc \in {"auth", "auth_stamp"} => SnifferSent' = SnifferSent
    /\ (sn_pc = "auth_send" /\ sn_pc' = sn_pc) => SnifferSent' = SnifferSent
    /\ (sn_pc = "auth_send" /\ sn_pc' # sn_pc) =>
          /\ sn_pc' \in {"sniff", "crashed"}
          /\ Len(SnifferSent') = Len(SnifferSent) + 1
          /\ LET e == SnifferSent'[Len(SnifferSent')]
             IN  /\ SnifferSent' = Append(SnifferSent, e)
                 /\ e.frame.subtype = DOT11_SUBTYPE_AUTH_REQ
                 /\ e.frame.addr1 = packet.addr2
                 /\ e.frame.addr2 = AP_MAC

\* C4: a captured frame of authentication subtype addressed to the AP's MAC
\* makes received_frame call auth, which hands exactly one authentication
\* response to the link layer, its destination the requester's addr2; one
\* addressed elsewhere makes it return with nothing sent and the counter
\* unchanged, under both values of listen_only.
C4_AuthResponse == [][C4_AuthStep]_vars

\* an authentication response went to sta2, and the next authentication
\* request, addressed to another MAC, was dropped
C4_Witness ==
    /\ sn_pc = "sniff"
    /\ captured = 2
    /\ packet.subtype = DOT11_SUBTYPE_AUTH_REQ
    /\ packet.addr1 = OTHER_MAC
    /\ Len(SnifferSent) = 1
    /\ SnifferSent[1].frame.subtype = DOT11_SUBTYPE_AUTH_REQ
    /\ SnifferSent[1].frame.addr1 = "sta2"

\* what C5 asks of one step
C5_ProbeStep ==
    /\ \A p \in Packets :
          (Captures(p) /\ p.subtype = DOT11_SUBTYPE_PROBE_REQ /\ p.elts # <<>>) =>
              /\ sent' = sent
              /\ sequence_number' = sequence_number
              /\ IF p.elts[1].info = encode(ConfigSsid) \/ p.elts[1].len = 0
                 THEN sn_pc' = "probe_response"
                 ELSE sn_pc' \in {"sniff", "crashed"}
    /\ sn_pc = "probe_response" => SnifferSent' = SnifferSent
    /\ (sn_pc = "probe_stamp" /\ sn_pc' = sn_pc) => SnifferSent' = SnifferSent
    /\ (sn_pc = "probe_stamp" /\ sn_pc' # sn_pc) =>
          /\ SnifferSent' = SnifferSent
          /\ Len(issued') = Len(issued) + 1
          /\ issued'[Len(issued')].by = "sniffer"
    /\ (sn_pc = "probe_send" /\ sn_pc' = sn_pc) => SnifferSent' = SnifferSent
    /\ (sn_pc = "probe_send" /\ sn_pc' # sn_pc) =>
          /\ sn_pc' \in {"sniff", "crashed"}
          /\ Len(SnifferSent') = Len(SnifferSent) + 1
          /\ LET e == SnifferSent'[Len(SnifferSent')]
             IN  /\ SnifferSent' = Append(SnifferSent, e)
                 /\ e.frame.subtype = DOT11_SUBTYPE_PROBE_RESP
                 /\ e.frame.addr1 = packet.addr2
                 /\ e.frame.sequence_number = <<LastIssued("sniffer")>>

\* C5: a captured probe request with an SSID element makes received_frame
\* call probe_response if the SSID is the configured one or the element is
\* empty, and probe_response hands exactly one probe response to the link
\* layer, its destination the requester's addr2 and its sequence number the
\* value next_sequence_number just returned; any other SSID makes no
\* callback run, with nothing sent and the counter unchanged.
C5_ProbeResponse == [][C5_ProbeStep]_vars

\* a wildcard probe request was answered, and the next probe request, for
\* another SSID, was not
C5_Witness ==
    /\ sn_pc = "sniff"
    /\ captured = 2
    /\ packet.subtype = DOT11_SUBTYPE_PROBE_REQ
    /\ packet.elts # <<>>
    /\ packet.elts[1].info = <<98>>
    /\ Len(SnifferSent) = 1
    /\ SnifferSent[1].frame.subtype = DOT11_SUBTYPE_PROBE_RESP
    /\ SnifferSent[1].frame.addr1 = "sta1"
    /\ SnifferSent[1].result = "ok"
    /\ \E i \in 1..Len(issued) :
          /\ issued[i].by = "sniffer"
          /\ SnifferSent[1].frame.sequence_number = <<issued[i].value>>

\* what C6 asks of one step
C6_AssocStep ==
    \A p \in Packets :
        (Captures(p) /\ IsAssoc(p) /\ p.addr1 = AP_MAC) =>
            /\ queue' = Append(queue, p)
            /\ p.addr2 \in DOMAIN assoc_reqs'
            /\ assoc_reqs'[p.addr2] = p

\* C6: a captured association or reassociation request addressed to the AP's
\* MAC is put on the queue exactly once, unmodified, and becomes the station
\* table's entry for its source address, under both values of listen_only.
C6_AssocEnqueuedOnce == [][C6_AssocStep]_vars

\* what C7 asks of one step
C7_ListenOnlyStep ==
    \A p \in Packets :
        (Captures(p) /\ IsAssoc(p) /\ p.addr1 # AP_MAC /\ listen_only) =>
            /\ queue' = Append(queue, p)
            /\ p.addr2 \in DOMAIN assoc_reqs'
            /\ assoc_reqs'[p.addr2] = p

\* C7: with listen_only, a captured association or reassociation request
\* addressed to another MAC is put on the queue and recorded in the station
\* table under its source address.
C7_ListenOnlyAssoc == [][C7_ListenOnlyStep]_vars

\* with listen_only, the last frame captured was an association request for
\* another MAC, and it is the queue's last entry and its sender's record
C7_Witness ==
    /\ listen_only
    /\ sn_pc = "sniff"
    /\ IsAssoc(packet)
    /\ packet.addr1 = OTHER_MAC
    /\ Len(queue) = 1
    /\ queue[1] = packet
    /\ DOMAIN assoc_reqs = {packet.addr2}
    /\ assoc_reqs[packet.addr2] = packet

\* what C8 asks of one step
C8_UnrelatedStep ==
    \A p \in Packets :
        (Captures(p) /\ IsAssoc(p) /\ p.addr1 # AP_MAC /\ ~listen_only) =>
            /\ queue' = queue
            /\ assoc_reqs' = assoc_reqs
            /\ sequence_number' = sequence_number
            /\ sent' = sent
            /\ sn_pc' = "sniff"

\* C8: without listen_only, a captured association or reassociation request
\* addressed to another MAC leaves the queue, the station table and the
\* counter unchanged, and nothing is sent.
C8_UnrelatedAssoc == [][C8_UnrelatedStep]_vars

\* without listen_only, sta1's request to the AP was queued, and sta2's
\* request to another MAC, captured after it, was not
C8_Witness ==
    /\ ~listen_only
    /\ sn_pc = "sniff"
    /\ captured = 2
    /\ IsAssoc(packet)
    /\ packet.addr1 = OTHER_MAC
    /\ packet.addr2 = "sta2"
    /\ Len(queue) = 1
    /\ queue[1].addr2 = "sta1"
    /\ DOMAIN assoc_reqs = {"sta1"}

\* the calls of l2socket.send by TxBeacons
TxSent == SelectSeq(sent, LAMBDA e : e.by = "tx")

\* the number of beacons whose beacon() call started in the window [a, b]
BeaconsIn(a, b) ==
    Cardinality({i \in 1..Len(tx_times) : a <= tx_times[i].at /\ tx_times[i].at <= b})

\* n beacons in a window of T clock ticks are within 1 of T / interval
WithinOne(n, T) ==
    /\ (n - 1) * beacon_interval <= T
    /\ T <= (n + 1) * beacon_interval

EveryWindowWithinOne ==
    tx_pc \notin {"init", "build"} =>
        \A a \in start_time..now : \A b \in a..now :
            WithinOne(BeaconsIn(a, b), b - a)

\* C9 as stated: in every window since start_time the number of beacons is
\* within 1 of T / interval, however long the calls of beacon() take.
C9_BeaconCount == EveryWindowWithinOne

\* C9 as amended: the same, provided every call of beacon() so far took
\* less than one interval.
C9_BeaconCountNoOverrun ==
    (\A i \in 1..Len(tx_times) : tx_times[i].dur < beacon_interval) =>
        EveryWindowWithinOne

\* three beacons were sent, each call taking some time but less than an
\* interval, and the third left on the second tick after start_time
C9_Witness ==
    /\ Len(tx_times) = 3
    /\ \A i \in 1..3 : tx_times[i].dur > 0 /\ tx_times[i].dur < beacon_interval
    /\ tx_times[3].at = start_time + 2 * beacon_interval
    /\ tx_pc = "sleep"

FatalErrors == {"Network is down", "No such device"}

\* what C10 asks of one step
C10_FatalStep ==
    /\ (Len(TxSent') = Len(TxSent) + 1 /\ TxSent'[Len(TxSent')].result \in FatalErrors) =>
          /\ tx_pc' = "exited"
          /\ UNCHANGED <<sn_vars, lock, seq_lock, sequence_number>>
    /\ tx_pc = "exited" =>
          /\ tx_pc' = "exited"
          /\ TxSent' = TxSent
          /\ UNCHANGED <<beacon_frame, tx_times>>

\* what C10 asks of a state
C10_ListenerGoesOn ==
    tx_pc = "exited" =>
        /\ lock # "tx"
        /\ seq_lock # "tx"
        /\ (sn_pc = "sniff" /\ Events < MaxEvents) => ENABLED sniff
        /\ sn_pc = "probe_response" => ENABLED probe_response_lock
        /\ sn_pc = "auth" => ENABLED auth_lock

\* C10: a beacon send that raises "Network is down" or "No such device" ends
\* TxBeacons, which sends no beacon afterwards; the step leaves every
\* variable of Sniffer and both locks as they were, and TxBeacons is gone
\* holding neither lock, so Sniffer goes on whenever it has a step to take.
C10_FatalTransmitError == [][C10_FatalStep]_vars /\ []C10_ListenerGoesOn

\* the first beacon's send raised "No such device"; after it the listener
\* answered a probe request and forwarded an association request
C10_Witness ==
    /\ tx_pc = "exited"
    /\ sn_pc = "sniff"
    /\ Len(sent) = 2
    /\ sent[1].by = "tx" /\ sent[1].result = "No such device"
    /\ sent[2].by = "sniffer" /\ sent[2].result = "ok"
    /\ sent[2].frame.subtype = DOT11_SUBTYPE_PROBE_RESP
    /\ Len(queue) = 1
    /\ queue[1] = packet

\* TxBeacons is in its loop, Sniffer in sniff or in a callback
TxRunning == tx_pc \in {"beacon", "stamp", "send", "sleep"}

SnifferCapturing ==
    sn_pc \in {"sniff", "probe_response", "probe_stamp", "probe_send",
               "auth", "auth_stamp", "auth_send"}

\* C11: once started, Sniffer is capturing after every sequence of captured
\* frames and outcomes of its sends, and TxBeacons is in its loop unless
\* the send of its last beacon raised "Network is down" or "No such device".
C11_OnlyFatalErrorStops ==
    /\ sn_pc \notin {"init", "build"} => SnifferCapturing
    /\ tx_pc \notin {"init", "build"} =>
          \/ TxRunning
          \/ /\ TxSent # <<>>
             /\ TxSent[Len(TxSent)].result \in FatalErrors

\* what C12 asks of one step
C12_MalformedStep ==
    \A p \in Packets :
        (Captures(p) /\ p.subtype = DOT11_SUBTYPE_PROBE_REQ /\ p.elts = <<>>) =>
            /\ sent' = sent
            /\ sequence_number' = sequence_number
            /\ queue' = queue
            /\ assoc_reqs' = assoc_reqs
            /\ sn_pc' = "sniff"

\* C12: a captured probe request without an SSID element is skipped: nothing
\* is sent, the counter, the queue and the station table stay as they were,
\* and Sniffer is back in sniff, ready for the next frame.
C12_MalformedSkipped == [][C12_MalformedStep]_vars

\* the frames C14 is not about
Handled(p) ==
    /\ p.type = DOT11_TYPE_MANAGEMENT
    /\ p.subtype \in {DOT11_SUBTYPE_PROBE_REQ, DOT11_SUBTYPE_AUTH_REQ,
                      DOT11_SUBTYPE_ASSOC_REQ, DOT11_SUBTYPE_REASSOC_REQ}

\* what C14 asks of one step
C14_NoReactionStep ==
    \A p \in Packets :
        (Captures(p) /\ no_sniffer_filter /\ ~Handled(p)) =>
            /\ sent' = sent
            /\ sequence_number' = sequence_number
            /\ queue' = queue
            /\ assoc_reqs' = assoc_reqs
            /\ sn_pc' = "sniff"

\* C14: with the capture filter disabled, a captured frame that is not a
\* management frame of subtype probe request, authentication, association
\* request or reassociation request makes received_frame return with no
\* callback run: nothing sent, the counter, the queue and the station table
\* unchanged, Sniffer back in sniff.
C14_NoReaction == [][C14_NoReactionStep]_vars

\* a frame with its sequence number, or that and its destination, left out
SeqBlank(f) == [f EXCEPT !.sequence_number = <<>>]

SeqDestBlank(f) == [f EXCEPT !.sequence_number = <<>>, !.addr1 = ETHER_ANY]

\* what C13 asks of one step
C13_TemplateStep ==
    /\ tx_pc \notin {"init", "build"} =>
          SeqBlank(beacon_frame') = SeqBlank(beacon_frame)
    /\ sn_pc \notin {"init", "build"} =>
          /\ SeqDestBlank(probe_response_frame') = SeqDestBlank(probe_response_frame)
          /\ SeqDestBlank(auth_frame') = SeqDestBlank(auth_frame)

\* what C13 asks of a state
C13_TemplateFields ==
    /\ tx_pc \notin {"init", "build"} =>
          /\ beacon_frame.subtype = DOT11_SUBTYPE_BEACON
          /\ beacon_frame.addr1 = BROADCAST
          /\ beacon_frame.addr2 = AP_MAC /\ beacon_frame.addr3 = AP_MAC
          /\ beacon_frame.elts = build_fake_frame_ies
    /\ sn_pc \notin {"init", "build"} =>
          /\ probe_response_frame.subtype = DOT11_SUBTYPE_PROBE_RESP
          /\ probe_response_frame.addr2 = AP_MAC
          /\ probe_response_frame.addr3 = AP_MAC
          /\ probe_response_frame.elts = build_fake_frame_ies
          /\ auth_frame.subtype = DOT11_SUBTYPE_AUTH_REQ
          /\ auth_frame.addr2 = AP_MAC /\ auth_frame.addr3 = AP_MAC
          /\ auth_frame.seqnum = AUTH_SEQNUM
    /\ \A i \in 1..Len(sent) :
          /\ sent[i].frame.addr2 = AP_MAC /\ sent[i].frame.addr3 = AP_MAC
          /\ sent[i].by = "tx" => sent[i].frame.addr1 = BROADCAST

\* C13: once built, the beacon template changes in its sequence number only,
\* the probe response and authentication templates in their sequence number
\* and destination only: the beacon's destination stays broadcast, source
\* and BSSID stay the AP's MAC, the authentication sequence stays 2, and the
\* elements of beacon and probe response stay those built at startup.
C13_TemplatesReused == [][C13_TemplateStep]_vars /\ []C13_TemplateFields

\* the probe response template was stamped and sent twice, its destination
\* going from sta1 to sta2, and the authentication template was stamped
C13_Witness ==
    /\ Len(SnifferSent) = 2
    /\ SnifferSent[1].frame.subtype = DOT11_SUBTYPE_PROBE_RESP
    /\ SnifferSent[1].frame.addr1 = "sta1"
    /\ SnifferSent[2].frame.subtype = DOT11_SUBTYPE_PROBE_RESP
    /\ SnifferSent[2].frame.addr1 = "sta2"
    /\ SnifferSent[1].frame.sequence_number # SnifferSent[2].frame.sequence_number
    /\ sn_pc = "auth_send"
    /\ auth_frame.addr1 = "sta1"
    /\ auth_frame.sequence_number # <<>>

\* the construction lock is held by the process inside "with lock", by no
\* other, and by one process at a time
C15_Exclusive ==
    /\ ~(tx_pc = "build" /\ sn_pc = "build")
    /\ lock = "tx" <=> tx_pc = "build"
    /\ lock = "sniffer" <=> sn_pc = "build"

\* a process past its "with lock" never takes the lock again
C15_StartupOnlyStep ==
    /\ tx_pc \notin {"init", "build"} => tx_pc' \notin {"init", "build"}
    /\ sn_pc \notin {"init", "build"} => sn_pc' \notin {"init", "build"}
    /\ (lock' # lock /\ lock' = "tx") => tx_pc = "init"
    /\ (lock' # lock /\ lock' = "sniffer") => sn_pc = "init"

\* each process gets through its "with lock" and into its loop
C15_BothOperate ==
    /\ <>(tx_pc \notin {"init", "build"})
    /\ <>(sn_pc \notin {"init", "build"})

\* C15: TxBeacons and Sniffer never hold the construction lock at the same
\* time; each releases it before its beacon loop or sniff begins and never
\* takes it again; so the process that comes second to the lock gets it in
\* the end and begins its loop.
C15_ConstructionLock ==
    /\ []C15_Exclusive
    /\ [][C15_StartupOnlyStep]_vars
    /\ C15_BothOperate

\* TxBeacons came second: it is inside "with lock" after Sniffer has left
\* it, begun capturing and answered a probe request
C15_Witness ==
    /\ lock = "tx"
    /\ tx_pc = "build"
    /\ sn_pc = "sniff"
    /\ captured = 1
    /\ Len(SnifferSent) = 1
    /\ SnifferSent[1].result = "ok"

\* t is start_time + k * interval for an integer k >= lo
Aligned(t, lo) ==
    /\ (t - start_time) % beacon_interval = 0
    /\ t - start_time >= lo * beacon_interval

\* the interval slot a beacon() call started in
Slot(i) == (tx_times[i].at - start_time) \div beacon_interval

\* what C16 asks of one step: the sleep of every() lasts more than 0 and at
\* most interval, and ends on a tick
C16_SleepStep ==
    (tx_pc = "sleep" /\ tx_pc' = "beacon") =>
        /\ now' - now > 0
        /\ now' - now <= beacon_interval
        /\ Aligned(now', 1)

\* what C16 asks of a state: beacon() calls start on ticks, in slots of
\* their own, each on the first tick after the call before it returned
C16_OnePerSlot ==
    /\ \A i \in 1..Len(tx_times) : Aligned(tx_times[i].at, 0)
    /\ \A i, j \in 1..Len(tx_times) : i < j => Slot(i) < Slot(j)
    /\ \A i \in 1..(Len(tx_times) - 1) :
          LET end == tx_times[i].at + tx_times[i].dur
          IN  /\ tx_times[i + 1].at > end
              /\ tx_times[i + 1].at - end <= beacon_interval

\* C16: in every(), every sleep duration is greater than 0 and at most
\* interval, and every wake-up is on start_time + k * interval, k >= 1; so
\* at most one beacon() call starts in an interval slot, and after a call
\* that overran whole intervals the next one starts on the first tick after
\* its return, the ticks missed being skipped.
C16_AlignedSleep == [][C16_SleepStep]_vars /\ []C16_OnePerSlot

\* the first call of beacon() overran a whole interval and the second
\* returned exactly on a tick: ticks 1 and 3 were skipped, and the third
\* call started on tick 4
C16_Witness ==
    /\ Len(tx_times) = 3
    /\ tx_times[1].dur > beacon_interval
    /\ tx_times[2].at = start_time + 2 * beacon_interval
    /\ tx_times[2].dur = beacon_interval
    /\ tx_times[3].at = start_time + 4 * beacon_interval

\* the place in the queue of the last frame sent by station k
LastFrom(k) ==
    CHOOSE i \in 1..Len(queue) :
        /\ queue[i].addr2 = k
        /\ \A j \in 1..Len(queue) : queue[j].addr2 = k => j <= i

\* what C17 asks of a state: the keys of the station table are the source
\* addresses of the queue's frames, each mapped to the last of its frames
C17_TableMatchesQueue ==
    /\ DOMAIN assoc_reqs = {queue[i].addr2 : i \in 1..Len(queue)}
    /\ \A k \in DOMAIN assoc_reqs : assoc_reqs[k] = queue[LastFrom(k)]

\* what C17 asks of one step: the queue grows at its end only, and only by
\* the frame being captured
C17_QueueStep ==
    /\ Len(queue') >= Len(queue)
    /\ SubSeq(queue', 1, Len(queue)) = queue
    /\ \A i \in (Len(queue) + 1)..Len(queue') :
          /\ captured' = captured + 1
          /\ queue'[i] = packet'

\* C17: after any sequence of captured frames, the station table's keys are
\* the source addresses of all frames ever put on the queue, each key maps
\* to the frame from that source enqueued last, and the frames are on the
\* queue in the order of their capture.
C17_StationTable == []C17_TableMatchesQueue /\ [][C17_QueueStep]_vars

\* sta1's association request, sta2's, then sta1's reassociation request
\* were queued in that order: sta1's record is the reassociation request
C17_Witness ==
    /\ Len(queue) = 3
    /\ queue[1].addr2 = "sta1" /\ queue[1].subtype = DOT11_SUBTYPE_ASSOC_REQ
    /\ queue[2].addr2 = "sta2"
    /\ queue[3].addr2 = "sta1" /\ queue[3].subtype = DOT11_SUBTYPE_REASSOC_REQ
    /\ DOMAIN assoc_reqs = {"sta1", "sta2"}
    /\ assoc_reqs["sta1"] = queue[3]
    /\ assoc_reqs["sta2"] = queue[2]

\* the OSErrors whose strerror is a text with neither of the two events
OtherErrors == SendOutcomes \ (FatalErrors \cup {"ok", "None"})

\* what C18 asks of a state, of every beacon whose send raised such an
\* error: TxBeacons is in its loop after it; the next beacon() call starts
\* on the first tick after its return and carries the following sequence
\* number; no later beacon carries its number
C18_Swallowed ==
    \A i \in 1..Len(TxSent) :
        TxSent[i].result \in OtherErrors =>
            /\ i = Len(TxSent) => tx_pc \in {"sleep", "beacon"}
            /\ i < Len(TxSent) =>
                  LET end == tx_times[i].at + tx_times[i].dur
                  IN  /\ Aligned(tx_times[i + 1].at, 1)
                      /\ tx_times[i + 1].at > end
                      /\ tx_times[i + 1].at - end <= beacon_interval
                      /\ TxSent[i + 1].frame.sequence_number
                            = <<(TxSent[i].frame.sequence_number[1] + 1) % SEQ_MODULUS>>
            /\ \A j \in (i + 1)..Len(TxSent) :
                  TxSent[j].frame.sequence_number # TxSent[i].frame.sequence_number

\* what C18 asks of one step: after such an error the counter keeps the
\* value drawn for the beacon, and the sleep of every() is next
C18_SwallowStep ==
    (Len(TxSent') = Len(TxSent) + 1 /\ TxSent'[Len(TxSent')].result \in OtherErrors) =>
        /\ tx_pc' = "sleep"
        /\ <<sequence_number'>> = TxSent'[Len(TxSent')].frame.sequence_number

IssuedAt(e) ==
    CHOOSE k \in 1..Len(issued) :
        issued[k].by = e.by /\ <<issued[k].value>> = e.frame.sequence_number

IsBeaconOrProbeResponse(e) ==
    e.frame.subtype \in {DOT11_SUBTYPE_BEACON, DOT11_SUBTYPE_PROBE_RESP}

====
